---- MODULE Spec2Model ----
(***************************************************************************)
(* A model of l4casadi.L4CasADi (src/l4casadi/l4casadi.py): the handle     *)
(* state (_built, _cs_fun), the build pipeline (trace export, source       *)
(* rendering, toolchain invocation), the lazy binding of the compiled      *)
(* library, and the files all of this leaves in the build directory.       *)
(*                                                                         *)
(* A handle is used by one caller thread.  A call is cut into steps at the *)
(* operations that touch the file system, which is what handles share;     *)
(* pc[h] is the position of the call in progress on handle h.  What torch, *)
(* gcc and casadi answer is chosen nondeterministically at each step.      *)
(* log[h] is the trace of what the call in progress (or the last call) on  *)
(* h did, in order; result[h] is how the last call ended.                  *)
(***************************************************************************)
EXTENDS Integers, Sequences, FiniteSets

\* ------------------------------------------------------------------ bounds
MaxCalls == 3      \* top-level calls made on one handle
MaxRows == 1       \* rows of a symbolic input
MaxCols == 2       \* columns of a symbolic input
MaxDim == 2        \* rows and columns of an input where the shapes are checked

Handles == {1, 2}
Names == {"a", "b"}
Shapes == (1..MaxRows) \X (1..MaxCols)
ProbeShapes == (1..MaxDim) \X (1..MaxDim)

\* The models wrapped, by the shape of what they return for an input of
\* shape <<a, b>>: <<a, b>>, <<b, a>>, <<a * b>> and <<1, a, b>>.
ModelKinds == {"identity", "transpose", "flatten", "stack"}

VARIABLES
    model,           \* self.model, as the kind of model it is
    naive,           \* self.naive
    has_batch,       \* self.has_batch
    name,            \* self.name
    _with_jacobian,  \* self._with_jacobian
    _with_hessian,   \* self._with_hessian
    inputs,          \* the shapes of the inputs the callers pass
    _built,          \* self._built
    _cs_fun,         \* self._cs_fun: the library bound, NoTag for None
    pc,              \* position of the call in progress on the handle
    frame,           \* arguments and locals of the call in progress
    log,             \* what the call in progress / the last call did, in order
    result,          \* how the last call ended, NoResult while one is in progress
    calls,           \* top-level calls the handle's caller may still make
    nbuild,          \* builds started on the handle
    bind_count,      \* successful cs.external bindings of the handle
    failed,          \* a build of the handle has ended in a compilation failure
    dir_exists,      \* the build directory exists
    fs               \* the files of the build directory, by name

cfg == <<model, naive, has_batch, name, _with_jacobian, _with_hessian, inputs>>
handle == <<_built, _cs_fun>>
ghost == <<nbuild, bind_count, failed>>
disk == <<dir_exists, fs>>
vars == <<cfg, handle, pc, frame, log, result, calls, ghost, disk>>

\* ------------------------------------------------------------------ values
NoTag == [h |-> 0, n |-> 0]

\* A trace file holds the tag of the build that wrote it.  A rendered source
\* file holds the gen_params it was rendered with and the tag of the build
\* that rendered it.  A library holds the tag of the source it was compiled
\* from.
NoSource ==
    [tag |-> NoTag, naive |-> FALSE, has_jac |-> "", has_hess |-> "",
     rows_in |-> 0, cols_in |-> 0, rows_out |-> 0, cols_out |-> 0,
     model_expects_batch_dim |-> ""]

NoFiles ==
    [forward |-> NoTag, jacrev |-> NoTag, hess |-> NoTag,
     cpp |-> NoSource, lib |-> NoTag]

NoCmd == [cpp |-> "", lib |-> "", soname |-> "", link |-> FALSE]

NoResult == [call |-> "none", outcome |-> "none", msg |-> NoCmd]

NoFrame ==
    [entry |-> "none", inp |-> <<0, 0>>, built_at_entry |-> FALSE,
     tag |-> NoTag, dir_seen |-> FALSE, probe |-> <<>>,
     exported_jacrev |-> FALSE, exported_hess |-> FALSE, hess_model |-> FALSE,
     os_cmd |-> NoCmd]

PyStr(b) == IF b THEN "true" ELSE "false"

Has(h, e) == \E i \in DOMAIN log[h] : log[h][i] = e
Count(h, e) == Cardinality({i \in DOMAIN log[h] : log[h][i] = e})
Before(h, e1, e2) ==
    \E i, j \in DOMAIN log[h] : i < j /\ log[h][i] = e1 /\ log[h][j] = e2

\* ------------------------------------------------------- pure helpers
\* What a call leaves behind when it ends.
Ended(h, outcome, msg) ==
    /\ pc' = [pc EXCEPT ![h] = "idle"]
    /\ result' = [result EXCEPT ![h] =
                     [call |-> frame[h].entry, outcome |-> outcome, msg |-> msg]]

LibFile(h) == fs[name[h]].lib

\* Mutation: forward binds on every evaluation instead of reusing _cs_fun.
NeedsLoad_Always(h) == TRUE

\* Mutation: forward binds again when the library on disk is not the one bound.
NeedsLoad_Reloads(h) == _cs_fun[h] = NoTag \/ _cs_fun[h] # LibFile(h)

\* forward, line 88: the binding is made only while none is cached.
NeedsLoad(h) == _cs_fun[h] = NoTag

\* Mutation: forward does not special-case a naive model.
ForwardRoute_NoNaiveBranch(h, inp) ==
    IF has_batch[h] /\ inp[2] # 1 THEN "ValueError"
    ELSE IF ~_built[h] THEN "build"
    ELSE IF _cs_fun[h] = NoTag THEN "load"
    ELSE "eval"

\* Mutation: forward does not build an unbuilt handle before loading.
ForwardRoute_NoAutoBuild(h, inp) ==
    IF has_batch[h] /\ inp[2] # 1 THEN "ValueError"
    ELSE IF naive[h] THEN "model"
    ELSE IF _cs_fun[h] = NoTag THEN "load"
    ELSE "eval"

\* Mutation: forward builds again while no binding is cached.
ForwardRoute_RebuildsUnbound(h, inp) ==
    IF has_batch[h] /\ inp[2] # 1 THEN "ValueError"
    ELSE IF naive[h] THEN "model"
    ELSE IF ~_built[h] \/ _cs_fun[h] = NoTag THEN "build"
    ELSE "eval"

\* Mutation: forward applies a naive model before it checks the input.
ForwardRoute_NaiveFirst(h, inp) ==
    IF naive[h] THEN "model"
    ELSE IF has_batch[h] /\ inp[2] # 1 THEN "ValueError"
    ELSE IF ~_built[h] THEN "build"
    ELSE IF NeedsLoad(h) THEN "load"
    ELSE "eval"

\* forward, lines 79-91: which way a forward call goes.
ForwardRoute(h, inp) ==
    IF has_batch[h] /\ inp[2] # 1 THEN "ValueError"
    ELSE IF naive[h] THEN "model"
    ELSE IF ~_built[h] THEN "build"
    ELSE IF NeedsLoad(h) THEN "load"
    ELSE "eval"

\* export_torch_traces, lines 220 and 230: the step after the forward trace
\* and after the Jacobian.
AfterJacobian(h) == IF _with_hessian[h] THEN "trace_hess" ELSE "render"
AfterForward(h) == IF _with_jacobian[h] THEN "trace_jac" ELSE AfterJacobian(h)

TierEvents ==
    [jacrev |-> [script_ok |-> "jacrev_script_ok",
                 script_failed |-> "jacrev_script_failed",
                 trace_ok |-> "jacrev_trace_ok",
                 trace_failed |-> "jacrev_trace_failed"],
     hess |-> [script_ok |-> "hess_script_ok",
               script_failed |-> "hess_script_failed",
               trace_ok |-> "hess_trace_ok",
               trace_failed |-> "hess_trace_failed"],
     forward |-> [script_ok |-> "forward_script_ok",
                  script_failed |-> "forward_script_failed",
                  trace_ok |-> "forward_trace_ok",
                  trace_failed |-> "forward_trace_failed"]]

\* Mutation: no traced attempt after the scripted one has failed.
JitCompileAndSave_NoFallback(file, scriptOk, traceOk) ==
    IF scriptOk
    THEN [ret |-> TRUE, raised |-> FALSE,
          tiers |-> <<TierEvents[file].script_ok>>]
    ELSE [ret |-> FALSE, raised |-> FALSE,
          tiers |-> <<TierEvents[file].script_failed>>]

\* _jit_compile_and_save, lines 246-258.  scriptOk: ts_compile(model).save
\* does not throw; traceOk: torch.jit.trace(model, dummy_inp).save does not.
\* ret is the value returned, tiers the attempts made in order, raised
\* whether an exception leaves the function.
JitCompileAndSave(file, scriptOk, traceOk) ==
    IF scriptOk
    THEN [ret |-> TRUE, raised |-> FALSE,
          tiers |-> <<TierEvents[file].script_ok>>]
    ELSE IF traceOk
    THEN [ret |-> TRUE, raised |-> FALSE,
          tiers |-> <<TierEvents[file].script_failed, TierEvents[file].trace_ok>>]
    ELSE [ret |-> FALSE, raised |-> FALSE,
          tiers |-> <<TierEvents[file].script_failed, TierEvents[file].trace_failed>>]

\* self.model(...).shape: the shape of what the model returns for an input
\* of shape shp.
OutShape(kind, shp) ==
    CASE kind = "identity" -> shp
      [] kind = "transpose" -> <<shp[2], shp[1]>>
      [] kind = "flatten" -> <<shp[1] * shp[2]>>
      [] kind = "stack" -> <<1, shp[1], shp[2]>>

\* _generate_cpp_function_template, lines 147 and 150: the shape of the zero
\* input the model is probed on.
ProbeInput(h) ==
    IF has_batch[h] THEN <<1, frame[h].inp[1]>> ELSE frame[h].inp

\* Mutation: the batched branch reads the first dimension of the output.
OutDims_FirstDim(h, out_shape) ==
    IF has_batch[h] THEN <<out_shape[1], 1>>
    ELSE IF Len(out_shape) = 1 THEN <<out_shape[1], 1>>
    ELSE <<out_shape[Len(out_shape) - 1], out_shape[Len(out_shape)]>>

\* _generate_cpp_function_template, lines 146-155: <<rows_out, cols_out>>
\* from the shape of the probe's output.
OutDims(h, out_shape) ==
    IF has_batch[h] THEN <<out_shape[Len(out_shape)], 1>>
    ELSE IF Len(out_shape) = 1 THEN <<out_shape[1], 1>>
    ELSE <<out_shape[Len(out_shape) - 1], out_shape[Len(out_shape)]>>

\* _generate_cpp_function_template, lines 161-172: the rendered variables.
GenParams(h) ==
    [tag |-> frame[h].tag,
     naive |-> FALSE,
     has_jac |-> PyStr(frame[h].exported_jacrev),
     has_hess |-> PyStr(frame[h].exported_hess),
     rows_in |-> frame[h].inp[1],
     cols_in |-> frame[h].inp[2],
     rows_out |-> OutDims(h, OutShape(model[h], ProbeInput(h)))[1],
     cols_out |-> OutDims(h, OutShape(model[h], ProbeInput(h)))[2],
     model_expects_batch_dim |-> PyStr(has_batch[h])]

\* build, lines 114-118: the source casadi generates for a naive model.
NaiveSource(h) ==
    [tag |-> frame[h].tag,
     naive |-> TRUE,
     has_jac |-> "",
     has_hess |-> "",
     rows_in |-> frame[h].inp[1],
     cols_in |-> frame[h].inp[2],
     rows_out |-> 0,
     cols_out |-> 0,
     model_expects_batch_dim |-> ""]

\* compile, lines 187-196: the command line.
OsCmd(h) ==
    [cpp |-> name[h], lib |-> name[h], soname |-> name[h], link |-> ~naive[h]]

\* Mutation: the diagnostics do not look at what was requested.
Diagnostics_Always(h) ==
    (IF ~frame[h].exported_jacrev THEN <<"print_no_jacobian">> ELSE <<>>)
    \o (IF ~frame[h].exported_hess THEN <<"print_no_hessian">> ELSE <<>>)

\* generate, lines 129-134: the diagnostics printed.
Diagnostics(h) ==
    (IF ~frame[h].exported_jacrev /\ _with_jacobian[h]
     THEN <<"print_no_jacobian">> ELSE <<>>)
    \o (IF ~frame[h].exported_hess /\ _with_hessian[h]
        THEN <<"print_no_hessian">> ELSE <<>>)

\* ------------------------------------------------------------ call entry
\* build, line 110 on: a build starts by looking for the build directory.
EnterBuild(h, entry, inp) ==
    /\ nbuild' = [nbuild EXCEPT ![h] = @ + 1]
    /\ frame' = [frame EXCEPT ![h] =
                    [NoFrame EXCEPT !.entry = entry, !.inp = inp,
                                    !.built_at_entry = _built[h],
                                    !.tag = [h |-> h, n |-> nbuild[h] + 1]]]
    /\ log' = [log EXCEPT ![h] = <<>>]
    /\ pc' = [pc EXCEPT ![h] = "exists"]
    /\ result' = [result EXCEPT ![h] = NoResult]

\* __call__ / forward, lines 71-93, up to the first step that touches the
\* build directory.
CallForward(h) ==
    \E inp \in inputs :
        /\ pc[h] = "idle"
        /\ calls[h] > 0
        /\ calls' = [calls EXCEPT ![h] = @ - 1]
        /\ LET route == ForwardRoute(h, inp)
               fr == [NoFrame EXCEPT !.entry = "forward", !.inp = inp,
                                     !.built_at_entry = _built[h]]
           IN  CASE route = "ValueError" ->
                      /\ frame' = [frame EXCEPT ![h] = fr]
                      /\ log' = [log EXCEPT ![h] = <<>>]
                      /\ pc' = [pc EXCEPT ![h] = "idle"]
                      /\ result' = [result EXCEPT ![h] =
                            [call |-> "forward", outcome |-> "ValueError",
                             msg |-> NoCmd]]
                      /\ UNCHANGED nbuild
                 [] route = "model" ->
                      /\ frame' = [frame EXCEPT ![h] = fr]
                      /\ log' = [log EXCEPT ![h] = <<"model">>]
                      /\ pc' = [pc EXCEPT ![h] = "idle"]
                      /\ result' = [result EXCEPT ![h] =
                            [call |-> "forward", outcome |-> "ok", msg |-> NoCmd]]
                      /\ UNCHANGED nbuild
                 [] route = "build" -> EnterBuild(h, "forward", inp)
                 [] route = "load" ->
                      /\ frame' = [frame EXCEPT ![h] = fr]
                      /\ log' = [log EXCEPT ![h] = <<>>]
                      /\ pc' = [pc EXCEPT ![h] = "load"]
                      /\ result' = [result EXCEPT ![h] = NoResult]
                      /\ UNCHANGED nbuild
                 [] route = "eval" ->
                      /\ frame' = [frame EXCEPT ![h] = fr]
                      /\ log' = [log EXCEPT ![h] = <<"eval">>]
                      /\ pc' = [pc EXCEPT ![h] = "idle"]
                      /\ result' = [result EXCEPT ![h] =
                            [call |-> "forward", outcome |-> "ok", msg |-> NoCmd]]
                      /\ UNCHANGED nbuild
        /\ UNCHANGED <<cfg, handle, bind_count, failed, disk>>

\* build, lines 99-110: an explicit build call.
CallBuild(h) ==
    \E inp \in inputs :
        /\ pc[h] = "idle"
        /\ calls[h] > 0
        /\ calls' = [calls EXCEPT ![h] = @ - 1]
        /\ EnterBuild(h, "build", inp)
        /\ UNCHANGED <<cfg, handle, bind_count, failed, disk>>

\* A direct call of _load_built_library_as_external_cs_fun, line 137.
CallLoad(h) ==
    /\ pc[h] = "idle"
    /\ calls[h] > 0
    /\ calls' = [calls EXCEPT ![h] = @ - 1]
    /\ frame' = [frame EXCEPT ![h] =
                    [NoFrame EXCEPT !.entry = "load",
                                    !.built_at_entry = _built[h]]]
    /\ log' = [log EXCEPT ![h] = <<>>]
    /\ pc' = [pc EXCEPT ![h] = "load"]
    /\ result' = [result EXCEPT ![h] = NoResult]
    /\ UNCHANGED <<cfg, handle, ghost, disk>>

\* ------------------------------------------------------------ build steps
\* Mutation: a non-naive build renders the source without exporting traces.
AfterMakeDir_SkipsExport(h) == IF naive[h] THEN "naive_generate" ELSE "render"

\* build, line 113: the step after the build directory is there.
AfterMakeDir(h) == IF naive[h] THEN "naive_generate" ELSE "save_forward"

\* maybe_make_generation_dir, line 96: os.path.exists.
PathExists(h) ==
    /\ pc[h] = "exists"
    /\ frame' = [frame EXCEPT ![h].dir_seen = dir_exists]
    /\ log' = [log EXCEPT ![h] = @ \o <<"exists">>]
    /\ pc' = [pc EXCEPT ![h] = IF dir_exists THEN AfterMakeDir(h) ELSE "makedirs"]
    /\ UNCHANGED <<cfg, handle, result, calls, ghost, disk>>

\* maybe_make_generation_dir, line 97: os.makedirs, which raises
\* FileExistsError when the directory is there by now.
MakeDirs(h) ==
    /\ pc[h] = "makedirs"
    /\ IF dir_exists
       THEN /\ log' = [log EXCEPT ![h] = @ \o <<"makedirs_failed">>]
            /\ Ended(h, "FileExistsError", NoCmd)
            /\ UNCHANGED dir_exists
       ELSE /\ log' = [log EXCEPT ![h] = @ \o <<"makedirs">>]
            /\ dir_exists' = TRUE
            /\ pc' = [pc EXCEPT ![h] = AfterMakeDir(h)]
            /\ UNCHANGED result
    /\ UNCHANGED <<cfg, handle, frame, calls, ghost, fs>>

\* build, lines 114-118: the naive branch writes <name>.cpp.
NaiveGenerate(h) ==
    /\ pc[h] = "naive_generate"
    /\ fs' = [fs EXCEPT ![name[h]].cpp = NaiveSource(h)]
    /\ log' = [log EXCEPT ![h] = @ \o <<"naive_generate">>]
    /\ pc' = [pc EXCEPT ![h] = "compile"]
    /\ UNCHANGED <<cfg, handle, frame, result, calls, ghost, dir_exists>>

\* Mutation: the forward trace goes through _jit_compile_and_save and the
\* build aborts when it returns False.
SaveForward_TwoTier(h) ==
    /\ pc[h] = "save_forward"
    /\ \E scriptOk, traceOk \in BOOLEAN :
          LET r == JitCompileAndSave("forward", scriptOk, traceOk)
          IN  /\ log' = [log EXCEPT ![h] = @ \o r.tiers]
              /\ IF r.ret
                 THEN /\ fs' = [fs EXCEPT ![name[h]].forward = frame[h].tag]
                      /\ pc' = [pc EXCEPT ![h] = AfterForward(h)]
                      /\ UNCHANGED result
                 ELSE /\ Ended(h, "ForwardTraceError", NoCmd)
                      /\ UNCHANGED fs
    /\ UNCHANGED <<cfg, handle, frame, calls, ghost, dir_exists>>

\* export_torch_traces, line 217: the forward trace, written by
\* torch.jit.trace(...).save alone; whatever it throws leaves build.
SaveForward(h) ==
    /\ pc[h] = "save_forward"
    /\ \E ok \in BOOLEAN :
          IF ok
          THEN /\ fs' = [fs EXCEPT ![name[h]].forward = frame[h].tag]
               /\ log' = [log EXCEPT ![h] = @ \o <<"forward_trace_ok">>]
               /\ pc' = [pc EXCEPT ![h] = AfterForward(h)]
               /\ UNCHANGED result
          ELSE /\ log' = [log EXCEPT ![h] = @ \o <<"forward_trace_failed">>]
               /\ Ended(h, "ForwardTraceError", NoCmd)
               /\ UNCHANGED fs
    /\ UNCHANGED <<cfg, handle, frame, calls, ghost, dir_exists>>

\* export_torch_traces, line 221: _trace_jac_model is called outside any
\* try, so what it throws leaves export_torch_traces, generate and build.
TraceJacFailed(h) ==
    /\ log' = [log EXCEPT ![h] = @ \o <<"trace_jac_raised">>]
    /\ Ended(h, "JacobianTraceError", NoCmd)

TraceJac(h) ==
    /\ pc[h] = "trace_jac"
    /\ \E ok \in BOOLEAN :
          IF ok
          THEN /\ log' = [log EXCEPT ![h] = @ \o <<"trace_jac">>]
               /\ pc' = [pc EXCEPT ![h] = "save_jac"]
               /\ UNCHANGED result
          ELSE TraceJacFailed(h)
    /\ UNCHANGED <<cfg, handle, frame, calls, ghost, disk>>

\* export_torch_traces, lines 223-227 and 238-242: a derivative trace is
\* saved through _jit_compile_and_save; the file is written by the attempt
\* that succeeds.
SaveDerivative(h, file, next) ==
    \E scriptOk, traceOk \in BOOLEAN :
        LET r == JitCompileAndSave(file, scriptOk, traceOk)
        IN  /\ log' = [log EXCEPT ![h] = @ \o r.tiers]
            /\ fs' = IF r.ret THEN [fs EXCEPT ![name[h]][file] = frame[h].tag]
                     ELSE fs
            /\ IF r.raised
               THEN /\ Ended(h, "SerializationError", NoCmd)
                    /\ UNCHANGED frame
               ELSE /\ frame' = [frame EXCEPT ![h] =
                          IF file = "jacrev"
                          THEN [@ EXCEPT !.exported_jacrev = r.ret]
                          ELSE [@ EXCEPT !.exported_hess = r.ret]]
                    /\ pc' = [pc EXCEPT ![h] = next]
                    /\ UNCHANGED result

SaveJac(h) ==
    /\ pc[h] = "save_jac"
    /\ SaveDerivative(h, "jacrev", AfterJacobian(h))
    /\ UNCHANGED <<cfg, handle, calls, ghost, dir_exists>>

\* Mutation: _trace_hess_model is called outside the try, like
\* _trace_jac_model.
TraceHessFailed_Propagates(h) ==
    /\ log' = [log EXCEPT ![h] = @ \o <<"trace_hess_raised">>]
    /\ Ended(h, "HessianTraceError", NoCmd)
    /\ UNCHANGED frame

\* export_torch_traces, lines 231-237: whatever _trace_hess_model throws is
\* swallowed, hess_model stays None and the serialization is skipped.
TraceHessFailed(h) ==
    /\ log' = [log EXCEPT ![h] = @ \o <<"trace_hess_raised">>]
    /\ pc' = [pc EXCEPT ![h] = "render"]
    /\ UNCHANGED <<frame, result>>

TraceHess(h) ==
    /\ pc[h] = "trace_hess"
    /\ \E ok \in BOOLEAN :
          IF ok
          THEN /\ log' = [log EXCEPT ![h] = @ \o <<"trace_hess">>]
               /\ frame' = [frame EXCEPT ![h].hess_model = TRUE]
               /\ pc' = [pc EXCEPT ![h] = "save_hess"]
               /\ UNCHANGED result
          ELSE TraceHessFailed(h)
    /\ UNCHANGED <<cfg, handle, calls, ghost, disk>>

SaveHess(h) ==
    /\ pc[h] = "save_hess"
    /\ SaveDerivative(h, "hess", "render")
    /\ UNCHANGED <<cfg, handle, calls, ghost, dir_exists>>

\* generate, lines 129-135, and _generate_cpp_function_template: the
\* diagnostics, then <name>.cpp is rendered.
Render(h) ==
    /\ pc[h] = "render"
    /\ frame' = [frame EXCEPT ![h].probe = ProbeInput(h)]
    /\ fs' = [fs EXCEPT ![name[h]].cpp = GenParams(h)]
    /\ log' = [log EXCEPT ![h] = @ \o Diagnostics(h) \o <<"render">>]
    /\ pc' = [pc EXCEPT ![h] = "compile"]
    /\ UNCHANGED <<cfg, handle, result, calls, ghost, dir_exists>>

\* Mutation: _built is set before the status is looked at.
CompileFailed_SetsBuilt(h, cmd) ==
    /\ log' = [log EXCEPT ![h] = @ \o <<"compile", "compile_failed">>]
    /\ failed' = [failed EXCEPT ![h] = TRUE]
    /\ _built' = [_built EXCEPT ![h] = TRUE]
    /\ Ended(h, "CompilationFailed", cmd)
    /\ UNCHANGED fs

\* Mutation: a failed toolchain run is repeated once, and taken as done.
CompileFailed_Retries(h, cmd) ==
    /\ log' = [log EXCEPT ![h] =
                  @ \o <<"compile", "compile_failed", "compile", "set_built">>]
    /\ failed' = [failed EXCEPT ![h] = TRUE]
    /\ fs' = [fs EXCEPT ![name[h]].lib = fs[name[h]].cpp.tag]
    /\ _built' = [_built EXCEPT ![h] = TRUE]
    /\ Ended(h, "ok", NoCmd)

\* Mutation: a failed compilation takes the handle back to unbuilt.
CompileFailed_ResetsBuilt(h, cmd) ==
    /\ log' = [log EXCEPT ![h] = @ \o <<"compile", "compile_failed">>]
    /\ failed' = [failed EXCEPT ![h] = TRUE]
    /\ Ended(h, "CompilationFailed", cmd)
    /\ _built' = [_built EXCEPT ![h] = FALSE]
    /\ UNCHANGED fs

\* compile, lines 199-200: a non-zero status raises with the command line;
\* build's line 124 is not reached.
CompileFailed(h, cmd) ==
    /\ log' = [log EXCEPT ![h] = @ \o <<"compile", "compile_failed">>]
    /\ failed' = [failed EXCEPT ![h] = TRUE]
    /\ Ended(h, "CompilationFailed", cmd)
    /\ UNCHANGED <<fs, _built>>

\* Mutation: the build goes on only with the source file it rendered itself.
CompileSucceeded_ChecksSource(h, cmd) ==
    /\ fs[name[h]].cpp.tag = frame[h].tag
    /\ fs' = [fs EXCEPT ![name[h]].lib = fs[name[h]].cpp.tag]
    /\ _built' = [_built EXCEPT ![h] = TRUE]
    /\ IF frame[h].entry = "forward" /\ NeedsLoad(h)
       THEN /\ log' = [log EXCEPT ![h] = @ \o <<"compile", "set_built">>]
            /\ pc' = [pc EXCEPT ![h] = "load"]
            /\ UNCHANGED result
       ELSE /\ log' = [log EXCEPT ![h] = @ \o <<"compile", "set_built">>
                         \o (IF frame[h].entry = "forward"
                             THEN <<"eval">> ELSE <<>>)]
            /\ Ended(h, "ok", NoCmd)
    /\ UNCHANGED failed

\* compile returns, build sets _built (line 124) and returns; a forward call
\* goes on at line 88.
CompileSucceeded(h, cmd) ==
    /\ fs' = [fs EXCEPT ![name[h]].lib = fs[name[h]].cpp.tag]
    /\ _built' = [_built EXCEPT ![h] = TRUE]
    /\ IF frame[h].entry = "forward" /\ NeedsLoad(h)
       THEN /\ log' = [log EXCEPT ![h] = @ \o <<"compile", "set_built">>]
            /\ pc' = [pc EXCEPT ![h] = "load"]
            /\ UNCHANGED result
       ELSE /\ log' = [log EXCEPT ![h] = @ \o <<"compile", "set_built">>
                         \o (IF frame[h].entry = "forward"
                             THEN <<"eval">> ELSE <<>>)]
            /\ Ended(h, "ok", NoCmd)
    /\ UNCHANGED failed

\* compile, lines 179-200, and the end of build, lines 122-124.  gcc cannot
\* succeed without the source file.
Compile(h) ==
    /\ pc[h] = "compile"
    /\ frame' = [frame EXCEPT ![h].os_cmd = OsCmd(h)]
    /\ \E status \in {0, 1} :
          /\ status = 0 => fs[name[h]].cpp # NoSource
          /\ IF status # 0
             THEN CompileFailed(h, OsCmd(h))
             ELSE CompileSucceeded(h, OsCmd(h))
    /\ UNCHANGED <<cfg, _cs_fun, calls, nbuild, bind_count, dir_exists>>

\* ------------------------------------------------------------ binding
\* _load_built_library_as_external_cs_fun, lines 137-143, and the
\* evaluation that follows it in forward, line 91.  cs.external cannot
\* succeed without the library file.
Load(h) ==
    /\ pc[h] = "load"
    /\ IF ~_built[h]
       THEN /\ log' = [log EXCEPT ![h] = @ \o <<"not_built">>]
            /\ Ended(h, "NotBuilt", NoCmd)
            /\ UNCHANGED <<_cs_fun, bind_count>>
       ELSE \E ok \in BOOLEAN :
               /\ ok => LibFile(h) # NoTag
               /\ IF ok
                  THEN /\ _cs_fun' = [_cs_fun EXCEPT ![h] = LibFile(h)]
                       /\ bind_count' = [bind_count EXCEPT ![h] = @ + 1]
                       /\ log' = [log EXCEPT ![h] = @ \o <<"external", "bind">>
                                    \o (IF frame[h].entry = "forward"
                                        THEN <<"eval">> ELSE <<>>)]
                       /\ Ended(h, "ok", NoCmd)
                  ELSE /\ log' = [log EXCEPT ![h] =
                                    @ \o <<"external", "external_failed">>]
                       /\ Ended(h, "LoadFailure", NoCmd)
                       /\ UNCHANGED <<_cs_fun, bind_count>>
    /\ UNCHANGED <<cfg, _built, frame, calls, nbuild, failed, disk>>

\* ------------------------------------------------------------ specifications
\* __init__, lines 49-69: a fresh handle, in any configuration.  Handle 1 is
\* the one in use; nothing is on disk yet.
Init ==
    /\ \E n, b, j, s \in BOOLEAN :
          /\ naive = [h \in Handles |-> IF h = 1 THEN n ELSE FALSE]
          /\ has_batch = [h \in Handles |-> IF h = 1 THEN b ELSE TRUE]
          /\ _with_jacobian = [h \in Handles |-> IF h = 1 THEN j ELSE TRUE]
          /\ _with_hessian = [h \in Handles |-> IF h = 1 THEN s ELSE TRUE]
    /\ name = [h \in Handles |-> IF h = 1 THEN "a" ELSE "b"]
    /\ inputs = Shapes
    /\ model = [h \in Handles |-> "identity"]
    /\ _built = [h \in Handles |-> FALSE]
    /\ _cs_fun = [h \in Handles |-> NoTag]
    /\ pc = [h \in Handles |-> "idle"]
    /\ frame = [h \in Handles |-> NoFrame]
    /\ log = [h \in Handles |-> <<>>]
    /\ result = [h \in Handles |-> NoResult]
    /\ calls = [h \in Handles |-> IF h = 1 THEN MaxCalls ELSE 0]
    /\ nbuild = [h \in Handles |-> 0]
    /\ bind_count = [h \in Handles |-> 0]
    /\ failed = [h \in Handles |-> FALSE]
    /\ dir_exists \in BOOLEAN
    /\ fs = [f \in Names |-> NoFiles]

Step(h) ==
    \/ PathExists(h)
    \/ MakeDirs(h)
    \/ NaiveGenerate(h)
    \/ SaveForward(h)
    \/ TraceJac(h)
    \/ SaveJac(h)
    \/ TraceHess(h)
    \/ SaveHess(h)
    \/ Render(h)
    \/ Compile(h)
    \/ Load(h)

\* The public calls: forward / __call__ and build.
Next == \E h \in Handles : CallForward(h) \/ CallBuild(h) \/ Step(h)

Spec == Init /\ [][Next]_vars

\* The public calls and direct calls of _load_built_library_as_external_cs_fun.
NextLoad == Next \/ \E h \in Handles : CallLoad(h)

SpecLoad == Init /\ [][NextLoad]_vars

\* Two handles of the same configuration, each used by its own thread for
\* one public call with a vector input, on one build directory; their names
\* differ or are the same (name defaults to 'l4casadi_f', line 30).
InitTwo ==
    /\ \E n, j, s \in BOOLEAN :
          /\ naive = [h \in Handles |-> n]
          /\ _with_jacobian = [h \in Handles |-> j]
          /\ _with_hessian = [h \in Handles |-> s]
    /\ has_batch = [h \in Handles |-> TRUE]
    /\ \E nm \in Names : name = [h \in Handles |-> IF h = 1 THEN "a" ELSE nm]
    /\ inputs = {<<1, 1>>}
    /\ model = [h \in Handles |-> "identity"]
    /\ _built = [h \in Handles |-> FALSE]
    /\ _cs_fun = [h \in Handles |-> NoTag]
    /\ pc = [h \in Handles |-> "idle"]
    /\ frame = [h \in Handles |-> NoFrame]
    /\ log = [h \in Handles |-> <<>>]
    /\ result = [h \in Handles |-> NoResult]
    /\ calls = [h \in Handles |-> 1]
    /\ nbuild = [h \in Handles |-> 0]
    /\ bind_count = [h \in Handles |-> 0]
    /\ failed = [h \in Handles |-> FALSE]
    /\ dir_exists \in BOOLEAN
    /\ fs = [f \in Names |-> NoFiles]

SpecTwo == InitTwo /\ [][Next]_vars

\* One handle wrapping any kind of model, in any configuration, on which
\* one public call is made with an input of any shape.
InitShape ==
    /\ \E k \in ModelKinds : model = [h \in Handles |-> k]
    /\ \E n, b, j, s \in BOOLEAN :
          /\ naive = [h \in Handles |-> IF h = 1 THEN n ELSE FALSE]
          /\ has_batch = [h \in Handles |-> IF h = 1 THEN b ELSE TRUE]
          /\ _with_jacobian = [h \in Handles |-> IF h = 1 THEN j ELSE TRUE]
          /\ _with_hessian = [h \in Handles |-> IF h = 1 THEN s ELSE TRUE]
    /\ name = [h \in Handles |-> IF h = 1 THEN "a" ELSE "b"]
    /\ inputs = ProbeShapes
    /\ _built = [h \in Handles |-> FALSE]
    /\ _cs_fun = [h \in Handles |-> NoTag]
    /\ pc = [h \in Handles |-> "idle"]
    /\ frame = [h \in Handles |-> NoFrame]
    /\ log = [h \in Handles |-> <<>>]
    /\ result = [h \in Handles |-> NoResult]
    /\ calls = [h \in Handles |-> IF h = 1 THEN 1 ELSE 0]
    /\ nbuild = [h \in Handles |-> 0]
    /\ bind_count = [h \in Handles |-> 0]
    /\ failed = [h \in Handles |-> FALSE]
    /\ dir_exists \in BOOLEAN
    /\ fs = [f \in Names |-> NoFiles]

SpecShape == InitShape /\ [][Next]_vars

\* ------------------------------------------------------------ properties
Done(h) == pc[h] = "idle" /\ result[h].call # "none"
ValidInput(h) == has_batch[h] => frame[h].inp[2] = 1
SourceFile(h) == fs[name[h]].cpp
LastEvent(h) == log[h][Len(log[h])]

\* The ways a build that got past trace export can end.
PastExport == {"ok", "CompilationFailed", "LoadFailure"}

\* C1: in a non-naive build with the Jacobian requested, a failure of the
\* Jacobian tracing or of its serialization does not abort the build: the
\* source is rendered with has_jac = 'false', the toolchain runs, and unless
\* the toolchain or the load fails the handle is built and the call succeeds.
C1_JacobianFailureNonFatal ==
    \A h \in Handles :
        ( /\ pc[h] = "idle"
          /\ ~naive[h]
          /\ _with_jacobian[h]
          /\ Has(h, "trace_jac_raised") \/ Has(h, "jacrev_trace_failed") )
        => /\ ~frame[h].exported_jacrev
           /\ Has(h, "render")
           /\ SourceFile(h).tag = frame[h].tag
           /\ SourceFile(h).has_jac = "false"
           /\ Has(h, "compile")
           /\ result[h].outcome \in PastExport
           /\ result[h].outcome = "ok" => _built[h]

\* C2 (as stated): a naive handle never has the toolchain invoked for it by
\* any public call, and no shared library is ever produced for it.
C2_NaiveNeverCompiles ==
    \A h \in Handles :
        naive[h] => ~Has(h, "compile") /\ LibFile(h) = NoTag

\* C2 (amended): for a naive handle, forward / __call__ never starts a build
\* and never invokes the toolchain; only an explicit build call does, with a
\* command line that does not link the runtime library, and only such a call
\* produces the shared library.
C2_NaiveForwardNeverCompiles ==
    \A h \in Handles :
        naive[h] =>
            /\ frame[h].entry = "forward" =>
                  /\ pc[h] = "idle"
                  /\ ~Has(h, "exists")
                  /\ ~Has(h, "compile")
            /\ Has(h, "compile") =>
                  /\ frame[h].entry = "build"
                  /\ frame[h].os_cmd.link = FALSE
            /\ LibFile(h) # NoTag => nbuild[h] > 0
            /\ _built[h] => nbuild[h] > 0

\* A naive handle that an explicit build has compiled, and on which forward
\* then evaluated the model directly.
C2_Witness ==
    \E h \in Handles :
        /\ naive[h]
        /\ Done(h)
        /\ result[h].call = "forward"
        /\ result[h].outcome = "ok"
        /\ log[h] = <<"model">>
        /\ _built[h]
        /\ LibFile(h) # NoTag

\* C3: over any sequence of public calls on a non-naive handle the binding
\* is made exactly once: cs.external is never reached while _built is false,
\* a forward call that returns has the binding made, and no later call makes
\* it again.
C3_BoundExactlyOnce ==
    \A h \in Handles :
        /\ bind_count[h] <= 1
        /\ Has(h, "external") => _built[h]
        /\ bind_count[h] = 1 => _built[h]
        /\ _cs_fun[h] # NoTag <=> bind_count[h] = 1
        /\ ( /\ ~naive[h]
             /\ Done(h)
             /\ result[h].call = "forward"
             /\ result[h].outcome = "ok" )
           => bind_count[h] = 1 /\ Has(h, "eval")

\* A later evaluation that reused the cached binding.
C3_Witness ==
    \E h \in Handles :
        /\ ~naive[h]
        /\ Done(h)
        /\ result[h].call = "forward"
        /\ result[h].outcome = "ok"
        /\ log[h] = <<"eval">>
        /\ bind_count[h] = 1
        /\ calls[h] = 0

\* C4: with model_expects_batch_dim, an input whose trailing dimension is not
\* 1 given to forward or to build fails with the error before any build step.
C4_NonVectorInputRejected ==
    \A h \in Handles :
        ( /\ has_batch[h]
          /\ frame[h].entry \in {"forward", "build"}
          /\ frame[h].inp[2] # 1 )
        => /\ pc[h] = "idle"
           /\ result[h].outcome = "ValueError"
           /\ log[h] = <<>>

\* C5 (as stated): forward on a non-naive handle on which no build has
\* completed fails with the 'not built yet' error and evaluates nothing.
C5_ForwardUnbuiltRaisesNotBuilt ==
    \A h \in Handles :
        ( /\ ~naive[h]
          /\ frame[h].entry = "forward"
          /\ ~frame[h].built_at_entry
          /\ ValidInput(h)
          /\ pc[h] = "idle" )
        => result[h].outcome = "NotBuilt" /\ ~Has(h, "eval")

\* C5 (amended): forward on a non-naive, unbuilt handle never fails with
\* 'not built yet': it runs build first, and when it returns it has built,
\* bound and evaluated.  The 'not built yet' error comes only from a direct
\* call of _load_built_library_as_external_cs_fun on an unbuilt handle.
C5_ForwardBuildsWhenUnbuilt ==
    \A h \in Handles :
        /\ result[h].outcome = "NotBuilt" =>
              result[h].call = "load" /\ ~_built[h]
        /\ ( /\ ~naive[h]
             /\ frame[h].entry = "forward"
             /\ ~frame[h].built_at_entry
             /\ ValidInput(h) )
           => /\ log[h] # <<>> => log[h][1] = "exists"
              /\ pc[h] = "idle" => log[h] # <<>>
              /\ Has(h, "external") => Before(h, "set_built", "external")
              /\ (Done(h) /\ result[h].outcome = "ok") =>
                    /\ _built[h]
                    /\ Before(h, "set_built", "eval")

\* A forward call on an unbuilt handle that built, bound and evaluated.
C5_Witness ==
    \E h \in Handles :
        /\ ~naive[h]
        /\ frame[h].entry = "forward"
        /\ ~frame[h].built_at_entry
        /\ Done(h)
        /\ result[h].outcome = "ok"
        /\ Has(h, "bind")
        /\ Has(h, "eval")

HessTiers ==
    {TierEvents.hess.script_ok, TierEvents.hess.script_failed,
     TierEvents.hess.trace_ok, TierEvents.hess.trace_failed}

\* C6: in a non-naive build with the Hessian requested, whatever Hessian
\* tracing throws is caught: has_hess is false, no Hessian serialization is
\* attempted, the exception does not reach the caller, and the build goes on
\* to render (with has_hess = 'false') and compile, reaching _built = true
\* when the toolchain succeeds.
C6_HessianTraceFailureSwallowed ==
    \A h \in Handles :
        Has(h, "trace_hess_raised") =>
            /\ ~naive[h] /\ _with_hessian[h]
            /\ ~frame[h].exported_hess
            /\ ~frame[h].hess_model
            /\ \A e \in HessTiers : ~Has(h, e)
            /\ pc[h] \in {"render", "compile", "load", "idle"}
            /\ result[h].outcome # "HessianTraceError"
            /\ pc[h] \in {"compile", "load", "idle"} =>
                  /\ Before(h, "trace_hess_raised", "render")
                  /\ SourceFile(h).tag = frame[h].tag
                  /\ SourceFile(h).has_hess = "false"
            /\ pc[h] \in {"load", "idle"} =>
                  /\ Before(h, "render", "compile")
                  /\ result[h].outcome \in PastExport \cup {"none"}
                  /\ Has(h, "set_built") <=> ~Has(h, "compile_failed")
                  /\ Has(h, "set_built") => _built[h]

\* A forward call whose Hessian tracing threw and that still built and
\* evaluated.
C6_Witness ==
    \E h \in Handles :
        /\ Has(h, "trace_hess_raised")
        /\ Done(h)
        /\ result[h].call = "forward"
        /\ result[h].outcome = "ok"
        /\ _built[h]
        /\ ~frame[h].built_at_entry
        /\ SourceFile(h).has_hess = "false"

\* C7: when the toolchain returns a non-zero status, build raises at once
\* with the exact command line in the message, that build does not set
\* _built, and no binding is made.
C7_CompilationFailureRaises ==
    \A h \in Handles :
        (Has(h, "compile_failed") \/ result[h].outcome = "CompilationFailed") =>
            /\ Done(h)
            /\ result[h].outcome = "CompilationFailed"
            /\ result[h].msg = OsCmd(h)
            /\ result[h].msg = frame[h].os_cmd
            /\ result[h].msg # NoCmd
            /\ LastEvent(h) = "compile_failed"
            /\ ~Has(h, "set_built")
            /\ _built[h] = frame[h].built_at_entry
            /\ ~Has(h, "external")
            /\ ~Has(h, "bind")
            /\ ~frame[h].built_at_entry => _cs_fun[h] = NoTag

\* A build that failed in the toolchain on a handle that is still unbuilt.
C7_Witness ==
    \E h \in Handles :
        /\ Done(h)
        /\ result[h].outcome = "CompilationFailed"
        /\ ~_built[h]
        /\ _cs_fun[h] = NoTag

\* C8 (as stated): once a build of a handle has failed in the toolchain, no
\* later call on the handle re-runs the pipeline and reaches Built.
C8_FailedStaysFailed ==
    \A h \in Handles : failed[h] => ~Has(h, "set_built")

\* C8 (amended): nothing retries automatically: a call invokes the toolchain
\* at most once, and a failed invocation ends the call with the compilation
\* failure, leaving _built as it was.  The handle is not left failed for
\* good: a later forward or build call re-runs the whole pipeline (directory,
\* trace export, rendering, toolchain) and reaches Built when the toolchain
\* succeeds.
C8_NoAutomaticRetry ==
    \A h \in Handles :
        /\ Count(h, "compile") <= 1
        /\ Has(h, "compile_failed") =>
              /\ Done(h)
              /\ result[h].outcome = "CompilationFailed"
              /\ ~Has(h, "set_built")
              /\ _built[h] = frame[h].built_at_entry
        /\ (failed[h] /\ Has(h, "set_built")) =>
              /\ Before(h, "exists", "compile")
              /\ Before(h, "compile", "set_built")
              /\ ~naive[h] =>
                    /\ Before(h, "forward_trace_ok", "render")
                    /\ Before(h, "render", "compile")
              /\ naive[h] => Before(h, "naive_generate", "compile")

\* A handle whose build failed in the toolchain and which a later call, made
\* while it was still unbuilt, has built.
C8_Witness ==
    \E h \in Handles :
        /\ failed[h]
        /\ Done(h)
        /\ ~frame[h].built_at_entry
        /\ Has(h, "set_built")
        /\ _built[h]
        /\ result[h].outcome = "ok"

Exported(h, file) ==
    IF file = "jacrev" THEN frame[h].exported_jacrev ELSE frame[h].exported_hess

Attempted(h, file) ==
    \E t \in {"script_ok", "script_failed", "trace_ok", "trace_failed"} :
        Has(h, TierEvents[file][t])

\* C9: _jit_compile_and_save never raises and follows an ordered two-tier
\* fallback: the scripted serialization is attempted first and once, the
\* traced one only after the scripted one has failed, and the value returned
\* is True when an attempt succeeded (the file is then written) and False
\* exactly when both failed.
C9_TwoTierFallback ==
    \A h \in Handles : \A file \in {"jacrev", "hess"} :
        LET E == TierEvents[file]
        IN  /\ result[h].outcome # "SerializationError"
            /\ Count(h, E.script_ok) + Count(h, E.script_failed) <= 1
            /\ Count(h, E.trace_ok) + Count(h, E.trace_failed) <= 1
            /\ Has(h, E.trace_ok) => Before(h, E.script_failed, E.trace_ok)
            /\ Has(h, E.trace_failed) => Before(h, E.script_failed, E.trace_failed)
            /\ Attempted(h, file) =>
                  /\ Has(h, E.script_ok) \/ Has(h, E.script_failed)
                  /\ Exported(h, file) <=> (Has(h, E.script_ok) \/ Has(h, E.trace_ok))
                  /\ ~Exported(h, file) <=>
                        (Has(h, E.script_failed) /\ Has(h, E.trace_failed))
                  /\ Exported(h, file) <=> fs[name[h]][file] = frame[h].tag
            /\ ~Attempted(h, file) => ~Exported(h, file)

\* A build in which the Jacobian was saved by the traced attempt after the
\* scripted one failed, and in which both attempts failed for the Hessian.
C9_Witness ==
    \E h \in Handles :
        /\ Before(h, "jacrev_script_failed", "jacrev_trace_ok")
        /\ frame[h].exported_jacrev
        /\ Before(h, "hess_script_failed", "hess_trace_failed")
        /\ ~frame[h].exported_hess
        /\ Done(h)
        /\ result[h].outcome = "ok"

ForwardAttempts(h) ==
    Count(h, TierEvents.forward.script_ok)
    + Count(h, TierEvents.forward.script_failed)
    + Count(h, TierEvents.forward.trace_ok)
    + Count(h, TierEvents.forward.trace_failed)

\* C10 (as stated): the forward trace is saved through the two-tier
\* fallback: a failed first attempt is followed by a second one, and the
\* build aborts on the forward trace only when both have failed.
C10_ForwardTwoTier ==
    \A h \in Handles :
        result[h].outcome = "ForwardTraceError" => ForwardAttempts(h) = 2

\* C10 (amended): the forward trace is saved by a single attempt,
\* torch.jit.trace(...).save, with no scripted attempt and no fallback; when
\* that attempt fails the build aborts at once, before anything else is
\* written, leaving _built as it was.
C10_ForwardSingleAttempt ==
    \A h \in Handles :
        /\ ForwardAttempts(h) <= 1
        /\ ~Has(h, TierEvents.forward.script_ok)
        /\ ~Has(h, TierEvents.forward.script_failed)
        /\ pc[h] \in {"trace_jac", "save_jac", "trace_hess", "save_hess", "render"}
              => Has(h, "forward_trace_ok")
        /\ Has(h, "forward_trace_ok") => fs[name[h]].forward = frame[h].tag
        /\ (Has(h, "forward_trace_failed") \/ result[h].outcome = "ForwardTraceError") =>
              /\ Done(h)
              /\ result[h].outcome = "ForwardTraceError"
              /\ LastEvent(h) = "forward_trace_failed"
              /\ fs[name[h]].forward # frame[h].tag
              /\ SourceFile(h).tag # frame[h].tag
              /\ _built[h] = frame[h].built_at_entry

\* A build that aborted on its one failed attempt at the forward trace.
C10_Witness ==
    \E h \in Handles :
        /\ Done(h)
        /\ result[h].outcome = "ForwardTraceError"
        /\ ForwardAttempts(h) = 1
        /\ ~_built[h]

FileTags(f) ==
    {fs[f].forward, fs[f].jacrev, fs[f].hess, fs[f].cpp.tag, fs[f].lib}

\* C11: two builds of handles with different names, running concurrently on
\* one build directory that may not exist yet, are safe: neither fails
\* because of the other, and the files one writes are not the other's.
C11_DistinctNamesSafe ==
    name[1] # name[2] =>
        \A h \in Handles :
            /\ result[h].outcome # "FileExistsError"
            /\ \A t \in FileTags(name[h]) : t.h \in {0, h}

Last(sq) == sq[Len(sq)]

\* h has rendered the source file of the build in progress or just ended.
Rendered(h) == ~naive[h] /\ Has(h, "render") /\ SourceFile(h).tag = frame[h].tag

\* C12: for every input shape (r, c) of a non-naive build the rendered
\* rows_in and cols_in are r and c.  With model_expects_batch_dim the model
\* is probed on a zero input of shape (1, r), cols_out is 1 and rows_out is
\* the last dimension of the probe's output; without it the probe has shape
\* (r, c), a 1-D output of length n gives (n, 1) and any other output gives
\* its last two dimensions.  An identity model with a batch dimension and a
\* (2, 1) input gives rows_in = 2, cols_in = 1, rows_out = 2, cols_out = 1.
C12_ShapeMetadata ==
    \A h \in Handles :
        Rendered(h) =>
            LET r == frame[h].inp[1]
                c == frame[h].inp[2]
                src == SourceFile(h)
                out == OutShape(model[h], frame[h].probe)
            IN  /\ src.rows_in = r
                /\ src.cols_in = c
                /\ has_batch[h] =>
                      /\ frame[h].probe = <<1, r>>
                      /\ src.cols_out = 1
                      /\ src.rows_out = Last(out)
                /\ ~has_batch[h] =>
                      /\ frame[h].probe = <<r, c>>
                      /\ Len(out) = 1 => src.rows_out = out[1] /\ src.cols_out = 1
                      /\ Len(out) = 2 => src.rows_out = out[1] /\ src.cols_out = out[2]
                      /\ Len(out) = 3 => src.rows_out = out[2] /\ src.cols_out = out[3]
                /\ (model[h] = "identity" /\ has_batch[h] /\ frame[h].inp = <<2, 1>>) =>
                      /\ src.rows_in = 2 /\ src.cols_in = 1
                      /\ src.rows_out = 2 /\ src.cols_out = 1
                /\ (model[h] = "flatten" /\ ~has_batch[h]) =>
                      src.rows_out = r * c /\ src.cols_out = 1
                /\ (model[h] = "transpose" /\ ~has_batch[h]) =>
                      src.rows_out = c /\ src.cols_out = r
                /\ (model[h] = "transpose" /\ has_batch[h]) =>
                      src.rows_out = 1 /\ src.cols_out = 1

\* The identity model with a batch dimension, built on a (2, 1) input.
C12_Witness ==
    \E h \in Handles :
        /\ model[h] = "identity"
        /\ has_batch[h]
        /\ frame[h].inp = <<2, 1>>
        /\ Rendered(h)
        /\ Done(h)
        /\ result[h].outcome = "ok"
        /\ SourceFile(h).rows_in = 2 /\ SourceFile(h).cols_in = 1
        /\ SourceFile(h).rows_out = 2 /\ SourceFile(h).cols_out = 1

\* The files of h on disk are one consistent set: the library was compiled
\* from the source file there, and the source was rendered by the build that
\* wrote the trace files it names.
Consistent(h) ==
    LET f == fs[name[h]]
    IN  /\ f.cpp.tag # NoTag
        /\ f.lib = f.cpp.tag
        /\ ~naive[h] =>
              /\ f.forward = f.cpp.tag
              /\ f.cpp.has_jac = "true" => f.jacrev = f.cpp.tag
              /\ f.cpp.has_hess = "true" => f.hess = f.cpp.tag

\* C13: there is no built-but-broken state: between calls, after any
\* sequence of build and forward calls (a failing rebuild of a built handle
\* included), _built implies that the library was compiled from the current
\* source file and that the source was rendered after the current trace
\* files were written.
C13_NoBuiltButBroken ==
    \A h \in Handles :
        (pc[h] = "idle" /\ _built[h]) => Consistent(h)

C15_LoadFailureChangesNothing ==
    [][\A h \in Handles :
          /\ (pc[h] = "load" /\ result'[h].outcome = "LoadFailure") =>
                /\ pc'[h] = "idle"
                /\ _built[h] /\ _built'[h]
                /\ _cs_fun[h] = NoTag /\ _cs_fun'[h] = NoTag
                /\ disk' = disk
          /\ (Done(h) /\ result[h].outcome = "LoadFailure"
              /\ calls'[h] # calls[h] /\ frame'[h].entry = "forward"
              /\ result'[h].outcome # "ValueError") =>
                /\ pc'[h] = "load"
                /\ log'[h] = << >>
                /\ nbuild'[h] = nbuild[h]
                /\ handle' = handle
                /\ disk' = disk]_vars

\* A forward call on a built handle that did nothing but the load, which
\* failed, after an earlier call had built the handle.
C15_Witness ==
    \E h \in Handles :
        /\ Done(h)
        /\ result[h].call = "forward"
        /\ result[h].outcome = "LoadFailure"
        /\ frame[h].built_at_entry
        /\ log[h] = <<"external", "external_failed">>
        /\ _built[h]
        /\ _cs_fun[h] = NoTag
        /\ nbuild[h] = 1
        /\ Consistent(h)

\* What a derivative is called in the log, on disk and in the source file.
Derivatives ==
    {[requested |-> _with_jacobian, file |-> "jacrev", flag |-> "has_jac",
      trace |-> "trace_jac", raised |-> "trace_jac_raised",
      print |-> "print_no_jacobian"],
     [requested |-> _with_hessian, file |-> "hess", flag |-> "has_hess",
      trace |-> "trace_hess", raised |-> "trace_hess_raised",
      print |-> "print_no_hessian"]}

\* C16: a derivative that was not requested is never attempted and never
\* reported: no trace and no serialization of it is attempted, its file is
\* not written, its flag is false and its diagnostic is not printed; the
\* diagnostic is printed exactly when the derivative was requested and its
\* flag came back false.
C16_UnrequestedDerivativeUntouched ==
    \A h \in Handles : \A d \in Derivatives :
        /\ ~d.requested[h] =>
              /\ ~Has(h, d.trace)
              /\ ~Has(h, d.raised)
              /\ ~Attempted(h, d.file)
              /\ fs[name[h]][d.file] = NoTag
              /\ ~Exported(h, d.file)
              /\ ~Has(h, d.print)
              /\ Rendered(h) => SourceFile(h)[d.flag] = "false"
        /\ ~Has(h, "render") => ~Has(h, d.print)
        /\ Rendered(h) =>
              /\ Count(h, d.print) <= 1
              /\ Has(h, d.print) <=>
                    (d.requested[h] /\ SourceFile(h)[d.flag] = "false")

\* A build without the Jacobian and with a Hessian whose trace failed: only
\* the Hessian diagnostic is printed.
C16_Witness ==
    \E h \in Handles :
        /\ Done(h)
        /\ result[h].outcome = "ok"
        /\ Rendered(h)
        /\ ~_with_jacobian[h]
        /\ _with_hessian[h]
        /\ SourceFile(h).has_jac = "false"
        /\ SourceFile(h).has_hess = "false"
        /\ Has(h, "print_no_hessian")
        /\ ~Has(h, "print_no_jacobian")

\* C17: two handles with the same name and build directory write the same
\* paths with nothing in the way: whoever owns a file now, a handle's next
\* write replaces it, the toolchain compiles whatever source is there and
\* sets _built, and the load binds whatever library is there.  (That both
\* builds can finish built on a mismatched set is C17_Witness.)
C17_SameNameUnprotected ==
    name[1] = name[2] =>
        \A h \in Handles :
            /\ OsCmd(h) = OsCmd(3 - h)
            /\ pc[h] = "save_forward" =>
                  ENABLED (SaveForward(h) /\ fs'[name[h]].forward = frame[h].tag)
            /\ pc[h] = "render" =>
                  ENABLED (Render(h) /\ fs'[name[h]].cpp.tag = frame[h].tag)
            /\ (pc[h] = "compile" /\ SourceFile(h) # NoSource) =>
                  ENABLED (Compile(h) /\ _built'[h]
                           /\ fs'[name[h]].lib = SourceFile(h).tag)
            /\ (pc[h] = "load" /\ LibFile(h) # NoTag) =>
                  ENABLED (Load(h) /\ _cs_fun'[h] = LibFile(h))
            /\ (Done(h) /\ Has(h, "set_built")) =>
                  _built[h] /\ result[h].outcome \in {"ok", "LoadFailure"}

\* Both builds have finished and both handles are built, while the library
\* was compiled from one handle's source and the forward trace on disk is
\* the other's.
C17_Witness ==
    /\ name[1] = name[2]
    /\ \A h \in Handles :
          /\ Done(h)
          /\ result[h].outcome = "ok"
          /\ Has(h, "set_built")
          /\ _built[h]
    /\ LibFile(1) = SourceFile(1).tag
    /\ LibFile(1).h # fs[name[1]].forward.h
    /\ ~Consistent(1)

\* C18: within one non-naive build the steps run in the order trace export,
\* source rendering, compilation, and each starts only if the one before it
\* did not raise: the source is rendered only after the forward trace was
\* saved, the toolchain is invoked only after this build wrote the source
\* file, and _built is set only after the toolchain exited with status zero.
C18_BuildStepOrder ==
    \A h \in Handles :
        ~naive[h] =>
            /\ Has(h, "render") =>
                  /\ Before(h, "forward_trace_ok", "render")
                  /\ ~Has(h, "forward_trace_failed")
                  /\ ~Has(h, "trace_jac_raised")
                  /\ fs[name[h]].forward = frame[h].tag
            /\ pc[h] = "compile" =>
                  /\ LastEvent(h) = "render"
                  /\ SourceFile(h).tag = frame[h].tag
            /\ Has(h, "compile") =>
                  /\ Before(h, "render", "compile")
                  /\ Count(h, "render") = 1
                  /\ Count(h, "compile") = 1
            /\ Has(h, "set_built") =>
                  /\ Before(h, "compile", "set_built")
                  /\ ~Has(h, "compile_failed")
                  /\ LibFile(h) = frame[h].tag
            /\ (_built[h] /\ ~frame[h].built_at_entry) => Has(h, "set_built")
            /\ Has(h, "compile_failed") => (_built[h] <=> frame[h].built_at_entry)

\* A non-naive build that ran all three steps and set _built.
C18_Witness ==
    \E h \in Handles :
        /\ ~naive[h]
        /\ Done(h)
        /\ result[h].call = "build"
        /\ result[h].outcome = "ok"
        /\ ~frame[h].built_at_entry
        /\ _built[h]
        /\ Before(h, "forward_trace_ok", "render")
        /\ Before(h, "render", "compile")
        /\ Before(h, "compile", "set_built")

\* C19: the handle only moves forward along Unbuilt -> Built -> Loaded: over
\* forward, build and load calls, whether they succeed or fail, _built never
\* goes from true back to false, _cs_fun never goes from bound back to None,
\* and a bound _cs_fun implies _built.
C19_StateOnlyMovesForward ==
    [][\A h \in Handles :
          /\ _built[h] => _built'[h]
          /\ _cs_fun[h] # NoTag => _cs_fun'[h] # NoTag
          /\ _cs_fun[h] # NoTag => _built[h]
          /\ _cs_fun'[h] # NoTag => _built'[h]]_vars

\* A rebuild of a loaded handle that failed in compilation: the handle is
\* still built and bound.
C19_Witness ==
    \E h \in Handles :
        /\ Done(h)
        /\ result[h].call = "build"
        /\ result[h].outcome = "CompilationFailed"
        /\ frame[h].built_at_entry
        /\ _built[h]
        /\ _cs_fun[h] # NoTag

\* C20: a forward / __call__ call on a naive handle never builds or binds:
\* it ends in one step, having applied the model to the input, with _built
\* and _cs_fun as they were (false and None on a handle that was only ever
\* evaluated), no build directory made and no file written; with
\* model_expects_batch_dim an input that is not one column wide is rejected
\* first, and the model is not applied.
C20_NaiveForwardChangesNothing ==
    [][\A h \in Handles :
          (naive[h] /\ calls'[h] # calls[h] /\ frame'[h].entry = "forward") =>
              /\ pc'[h] = "idle"
              /\ result'[h].call = "forward"
              /\ handle' = handle
              /\ _cs_fun'[h] = NoTag
              /\ disk' = disk
              /\ ghost' = ghost
              /\ nbuild[h] = 0 => ~_built'[h] /\ fs'[name[h]] = NoFiles
              /\ IF has_batch[h] /\ frame'[h].inp[2] # 1
                 THEN result'[h].outcome = "ValueError" /\ log'[h] = << >>
                 ELSE result'[h].outcome = "ok" /\ log'[h] = <<"model">>]_vars

\* A naive handle that was only ever evaluated, on a vector input.
C20_Witness ==
    \E h \in Handles :
        /\ naive[h]
        /\ has_batch[h]
        /\ Done(h)
        /\ result[h].call = "forward"
        /\ result[h].outcome = "ok"
        /\ frame[h].inp[2] = 1
        /\ log[h] = <<"model">>
        /\ nbuild[h] = 0
        /\ ~_built[h]
        /\ _cs_fun[h] = NoTag
        /\ fs[name[h]] = NoFiles

====
